---- MODULE Spec2Model ----
(***************************************************************************)
(* Model of arch/arm/mach-omap2/remoteproc.c: the OMAP4 remote processor   *)
(* platform glue.  The static tables (omap4_rproc_data, omap4_rproc_iommu, *)
(* omap4_rproc_devs, dsp_timers, ipu_timers) are the program state, the    *)
(* boot-time entry points (omap_rproc_reserve_cma, omap_rproc_init) and    *)
(* the four callbacks installed in the platform data are the actions.      *)
(* Every collaborator (hwmod, omap_device, dmtimer, driver core) is an     *)
(* input: the action draws the status each collaborator call returns and   *)
(* records the call in `calls`.                                            *)
(***************************************************************************)
EXTENDS Integers, Sequences, FiniteSets, TLC

VARIABLES
  cfg,              \* which of CONFIG_OMAP_REMOTEPROC_DSP / _IPU are set
  soc44xx,          \* cpu_is_omap44xx()
  dt,               \* of_have_populated_dt()
  omap4_rproc_data, \* the descriptor table
  timers,           \* dsp_timers[] / ipu_timers[], by array name
  pdevs,            \* the platform devices, by platform_device.id
  hardreset,        \* hwmod: line name -> TRUE when the line is asserted
  enabled,          \* hwmod: platform_device.id -> TRUE when omap_device enabled
  reserved,         \* dmtimer: ids of the timers requested and not yet freed
  phase,            \* boot position: "early", "reserved", "initcalls_done"
  fw,               \* remoteproc framework position, per platform device
  cycle,            \* reset/power calls since the last device_enable began
  last,             \* the entry point that ran last, with its arguments
  calls,            \* collaborator calls made by the entry point that ran last
  ret               \* value returned by the entry point that ran last

vars == << cfg, soc44xx, dt, omap4_rproc_data, timers, pdevs, hardreset,
           enabled, reserved, phase, fw, cycle, last, calls, ret >>

----------------------------------------------------------------------------
(* Bounds of the model *)

\* largest timers_cnt of a descriptor that is explored
MaxTimers == 3
\* longest reset/power call log of one cycle (caps retried shutdowns)
MaxCycle == 6

----------------------------------------------------------------------------
(* C values *)

\* NULL for pointers that carry an address (struct omap_device *, odt)
NULL == 0
\* NULL for pointers to named objects (strings, callbacks, static arrays)
NULLP == "NULL"
EINVAL == 22
EBUSY == 16
\* statuses a failing collaborator may return (-ENOMEM, -ENODEV)
ErrCodes == {-12, -19}
Statuses == {0} \cup ErrCodes
\* statuses of a hwmod reset / power call (0, -ENODEV)
HwStatuses == {0, -19}

\* PTR_ERR(): the pointer reinterpreted as a long
PTR_ERR(p) == p

\* no platform device / no string / no number in a recorded call
NoDev == 0 - 1

Call(op, pdev, arg, num, res) ==
  [op |-> op, pdev |-> pdev, arg |-> arg, num |-> num, res |-> res]

----------------------------------------------------------------------------
(* Static tables *)

\* the CMA bases 0x99000000 and 0x98800000, in MiB (address / 0x100000)
OMAP_RPROC_CMA_BASE_IPU == 2448
OMAP_RPROC_CMA_BASE_DSP == 2440

\* ipu_timers[] / dsp_timers[]: entry 1 is the source's; the further entries
\* let the model run the callbacks on arrays of up to MaxTimers + 1 timers
\* of the same capability.
ipu_timers_tbl ==
  << [cap |-> "OMAP_TIMER_HAS_IPU_IRQ", id |-> 3, odt |-> NULL],
     [cap |-> "OMAP_TIMER_HAS_IPU_IRQ", id |-> 4, odt |-> NULL],
     [cap |-> "OMAP_TIMER_HAS_IPU_IRQ", id |-> 9, odt |-> NULL],
     [cap |-> "OMAP_TIMER_HAS_IPU_IRQ", id |-> 11, odt |-> NULL] >>

dsp_timers_tbl ==
  << [cap |-> "OMAP_TIMER_HAS_DSP_IRQ", id |-> 5, odt |-> NULL],
     [cap |-> "OMAP_TIMER_HAS_DSP_IRQ", id |-> 6, odt |-> NULL],
     [cap |-> "OMAP_TIMER_HAS_DSP_IRQ", id |-> 7, odt |-> NULL],
     [cap |-> "OMAP_TIMER_HAS_DSP_IRQ", id |-> 8, odt |-> NULL] >>

TimerTbl(arr) == IF arr = "dsp_timers" THEN dsp_timers_tbl ELSE ipu_timers_tbl

Min(a, b) == IF a < b THEN a ELSE b

\* the timer array of n entries (n = 0: the descriptor has no .timers)
TimerArray(arr, n) == SubSeq(TimerTbl(arr), 1, Min(n, Len(TimerTbl(arr))))

\* one entry of omap4_rproc_data[]; n is ARRAY_SIZE of its timer array
DspData(n) ==
  [ name |-> "dsp_c0", firmware |-> "tesla-dsp.xe64T", mbox_name |-> "mbox-dsp",
    oh_name |-> "dsp", oh_name_opt |-> NULLP,
    timers |-> IF n = 0 THEN NULLP ELSE "dsp_timers", timers_cnt |-> n,
    set_bootaddr |-> "omap_ctrl_write_dsp_boot_addr",
    device_enable |-> NULLP, device_shutdown |-> NULLP,
    enable_timers |-> NULLP, disable_timers |-> NULLP ]

IpuData(n) ==
  [ name |-> "ipu_c0", firmware |-> "ducati-m3-core0.xem3", mbox_name |-> "mbox-ipu",
    oh_name |-> "ipu", oh_name_opt |-> NULLP,
    timers |-> IF n = 0 THEN NULLP ELSE "ipu_timers", timers_cnt |-> n,
    set_bootaddr |-> NULLP,
    device_enable |-> NULLP, device_shutdown |-> NULLP,
    enable_timers |-> NULLP, disable_timers |-> NULLP ]

\* the three tables, entry i of each guarded by the same #ifdef
RprocData(c, nd, ni) ==
  (IF c.dsp THEN << DspData(nd) >> ELSE << >>) \o
  (IF c.ipu THEN << IpuData(ni) >> ELSE << >>)

\* the iommu table with both entries in every configuration
omap4_rproc_iommu_unguarded(c) == << "mmu_dsp", "mmu_ipu" >>

omap4_rproc_iommu(c) ==
  (IF c.dsp THEN << "mmu_dsp" >> ELSE << >>) \o
  (IF c.ipu THEN << "mmu_ipu" >> ELSE << >>)

\* omap4_rproc_devs[]: &omap4_tesla has id 0, &omap4_ducati has id 1
omap4_rproc_devs(c) ==
  (IF c.dsp THEN << 0 >> ELSE << >>) \o
  (IF c.ipu THEN << 1 >> ELSE << >>)

\* a platform device before device_initialize()
PlatformDevice(id) ==
  [ name |-> "omap-rproc", id |-> id, init_name |-> NULLP, refs |-> 0,
    od |-> NULL, platform_data |-> << >>, iommu |-> NULLP,
    registered |-> FALSE ]

\* dev_set_name(&pdev->dev, "%s.%d", pdev->name, pdev->id)
dev_set_name(name, id) == name \o "." \o ToString(id)

\* dev_name(&pdev->dev)
dev_name(pdev) == pdev.init_name

Configs ==
  { [dsp |-> TRUE, ipu |-> FALSE], [dsp |-> FALSE, ipu |-> TRUE],
    [dsp |-> TRUE, ipu |-> TRUE] }

----------------------------------------------------------------------------
(* omap_rproc_reserve_cma *)

\* dma_declare_contiguous(dev, size, base, 0) returning st
dma_declare_contiguous(log, id, base, st) ==
  Append(log, Call("dma_declare_contiguous", id, "", base, st))

\* the hook giving up after a failed DSP reservation
reserve_cma_stop_on_failure(c, rs) ==
  LET l1 == IF c.dsp
            THEN dma_declare_contiguous(<< >>, 0, OMAP_RPROC_CMA_BASE_DSP, rs[1])
            ELSE << >>
      l2 == IF c.ipu /\ (l1 = << >> \/ l1[1].res = 0)
            THEN dma_declare_contiguous(l1, 1, OMAP_RPROC_CMA_BASE_IPU, rs[2])
            ELSE l1
  IN l2

\* rs[1], rs[2]: what the DSP and the IPU reservation return
omap_rproc_reserve_cma(c, rs) ==
  LET l1 == IF c.dsp
            THEN dma_declare_contiguous(<< >>, 0, OMAP_RPROC_CMA_BASE_DSP, rs[1])
            ELSE << >>
      l2 == IF c.ipu
            THEN dma_declare_contiguous(l1, 1, OMAP_RPROC_CMA_BASE_IPU, rs[2])
            ELSE l1
  IN l2

----------------------------------------------------------------------------
(* omap_rproc_init *)

\* what the collaborators return while one descriptor is built
Outcomes ==
  [ oh : BOOLEAN, opt : BOOLEAN, alloc : BOOLEAN, add : Statuses, reg : Statuses ]

AllOk == [ oh |-> TRUE, opt |-> TRUE, alloc |-> TRUE, add |-> 0, reg |-> 0 ]

\* the address omap_device_alloc returns for the device it allocated
OdAddr(id) == id + 1

\* the callback slots with disable_timers left out
InstallCallbacksPartial(d) ==
  [ d EXCEPT !.device_enable = "omap_rproc_device_enable",
             !.device_shutdown = "omap_rproc_device_shutdown",
             !.enable_timers = "omap_rproc_enable_timers" ]

\* lines 313-316: the four callback slots of a descriptor
InstallCallbacks(d) ==
  [ d EXCEPT !.device_enable = "omap_rproc_device_enable",
             !.device_shutdown = "omap_rproc_device_shutdown",
             !.enable_timers = "omap_rproc_enable_timers",
             !.disable_timers = "omap_rproc_disable_timers" ]

\* put_device(&pdev->dev)
put_device(s, id) ==
  [ s EXCEPT !.pdevs[id].refs = @ - 1,
             !.calls = Append(@, Call("put_device", id, "", 0, 0)) ]

\* omap_device_delete(od)
omap_device_delete(s, id) ==
  [ s EXCEPT !.pdevs[id].od = NULL,
             !.calls = Append(@, Call("omap_device_delete", id, "", 0, 0)) ]

\* the register step releasing the device without deleting the omap_device
InitRegisterNoDelete(s, i, o, c) ==
  LET id == omap4_rproc_devs(c)[i]
      s1 == [ s EXCEPT !.pdevs[id].iommu = omap4_rproc_iommu(c)[i] ]
      s2 == [ s1 EXCEPT !.ret = o.reg,
                        !.calls = Append(@, Call("omap_device_register", id, "", 0, o.reg)),
                        !.pdevs[id].registered = (o.reg = 0) ]
  IN IF s2.ret # 0
     THEN put_device(s2, id)
     ELSE s2

\* lines 341-350: bind the iommu, register, roll back when that fails
InitRegister(s, i, o, c) ==
  LET id == omap4_rproc_devs(c)[i]
      s1 == [ s EXCEPT !.pdevs[id].iommu = omap4_rproc_iommu(c)[i] ]
      s2 == [ s1 EXCEPT !.ret = o.reg,
                        !.calls = Append(@, Call("omap_device_register", id, "", 0, o.reg)),
                        !.pdevs[id].registered = (o.reg = 0) ]
  IN IF s2.ret # 0
     THEN put_device(omap_device_delete(s2, id), id)
     ELSE s2

\* lines 331-339: copy the descriptor into the device's platform_data
InitAddData(s, i, o, c) ==
  LET id == omap4_rproc_devs(c)[i]
      s1 == [ s EXCEPT !.ret = o.add,
                       !.calls = Append(@, Call("platform_device_add_data", id, "", i, o.add)),
                       !.pdevs[id].platform_data =
                           IF o.add = 0 THEN << s.data[i] >> ELSE @ ]
  IN IF s1.ret # 0
     THEN put_device(omap_device_delete(s1, id), id)
     ELSE InitRegister(s1, i, o, c)

\* lines 323-329: od = omap_device_alloc(pdev, oh, oh_count)
InitAlloc(s, i, o, c, oh_count) ==
  LET id == omap4_rproc_devs(c)[i]
      od == IF o.alloc THEN OdAddr(id) ELSE NULL
      s1 == [ s EXCEPT !.pdevs[id].od = od,
                       !.calls = Append(@, Call("omap_device_alloc", id, "", oh_count, od)) ]
  IN IF od = NULL
     THEN [ put_device(s1, id) EXCEPT !.ret = PTR_ERR(od) ]
     ELSE InitAddData(s1, i, o, c)

\* lines 313-321: callbacks, device_initialize, dev_set_name
InitDevice(s, i, o, c, oh_count) ==
  LET id == omap4_rproc_devs(c)[i]
      nm == dev_set_name(s.pdevs[id].name, s.pdevs[id].id)
      s1 == [ s EXCEPT !.data[i] = InstallCallbacks(@) ]
      s2 == [ s1 EXCEPT !.pdevs[id].refs = 1,
                        !.calls = Append(@, Call("device_initialize", id, "", 0, 0)) ]
      s3 == [ s2 EXCEPT !.pdevs[id].init_name = nm,
                        !.calls = Append(@, Call("dev_set_name", id, nm, 0, 0)) ]
  IN InitAlloc(s3, i, o, c, oh_count)

\* lines 287-311: the hwmod lookups of descriptor i
InitLookup(s, i, o, c) ==
  LET d == s.data[i]
      s1 == [ s EXCEPT !.calls = Append(@, Call("omap_hwmod_lookup", NoDev, d.oh_name, 0,
                                                IF o.oh THEN 1 ELSE NULL)) ]
      s2 == [ s1 EXCEPT !.calls = Append(@, Call("omap_hwmod_lookup", NoDev, d.oh_name_opt, 0,
                                                 IF o.opt THEN 1 ELSE NULL)) ]
  IN IF ~o.oh THEN s1
     ELSE IF d.oh_name_opt # NULLP
          THEN IF ~o.opt THEN s2 ELSE InitDevice(s2, i, o, c, 2)
          ELSE InitDevice(s1, i, o, c, 1)

RECURSIVE InitLoopBreak(_, _, _, _)
\* the loop leaving at the first descriptor that is not registered
InitLoopBreak(s, i, outs, c) ==
  IF i > Len(s.data) THEN s
  ELSE LET s1 == InitLookup(s, i, outs[i], c)
       IN IF s1.pdevs[omap4_rproc_devs(c)[i]].registered
          THEN InitLoopBreak(s1, i + 1, outs, c)
          ELSE s1

RECURSIVE InitLoop(_, _, _, _)
\* line 286: for (i = 0; i < ARRAY_SIZE(omap4_rproc_data); i++), 1-based here
InitLoop(s, i, outs, c) ==
  IF i > Len(s.data) THEN s
  ELSE InitLoop(InitLookup(s, i, outs[i], c), i + 1, outs, c)

\* the initcall without the cpu_is_omap44xx() test
init_on_any_soc(s, is44xx, outs, c) ==
  InitLoop([ s EXCEPT !.ret = 0 ], 1, outs, c)

\* the whole initcall; s carries data, pdevs, calls, ret
omap_rproc_init(s, is44xx, outs, c) ==
  IF ~is44xx THEN [ s EXCEPT !.ret = 0 ]
  ELSE InitLoop([ s EXCEPT !.ret = 0 ], 1, outs, c)

----------------------------------------------------------------------------
(* Reset / power callbacks.  h carries hardreset, enabled, calls, ret;      *)
(* rs[k] is the status the k-th collaborator call of the callback returns. *)

\* omap_device_idle(pdev): gates the device when it succeeds
omap_device_idle(h, id, st) ==
  [ h EXCEPT !.ret = st,
             !.enabled[id] = IF st = 0 THEN FALSE ELSE @,
             !.calls = Append(@, Call("omap_device_idle", id, "", 0, st)) ]

\* omap_device_enable(pdev): ungates the device when it succeeds
omap_device_enable(h, id, st) ==
  [ h EXCEPT !.ret = st,
             !.enabled[id] = IF st = 0 THEN TRUE ELSE @,
             !.calls = Append(@, Call("omap_device_enable", id, "", 0, st)) ]

\* omap_device_assert_hardreset(pdev, name)
omap_device_assert_hardreset(h, id, name, st) ==
  [ h EXCEPT !.ret = st,
             !.hardreset[name] = IF st = 0 THEN TRUE ELSE @,
             !.calls = Append(@, Call("omap_device_assert_hardreset", id, name, 0, st)) ]

\* omap_device_deassert_hardreset(pdev, name)
omap_device_deassert_hardreset(h, id, name, st) ==
  [ h EXCEPT !.ret = st,
             !.hardreset[name] = IF st = 0 THEN FALSE ELSE @,
             !.calls = Append(@, Call("omap_device_deassert_hardreset", id, name, 0, st)) ]

\* device_shutdown going on to cpu1 after a failed assert of cpu0
device_shutdown_no_abort(h, pdev, rs) ==
  LET h0 == [ h EXCEPT !.ret = -EINVAL ]
      h1 == omap_device_idle(h0, pdev.id, rs[1])
  IN IF h1.ret # 0 THEN h1
     ELSE IF dev_name(pdev) = "omap-rproc.0"
          THEN omap_device_assert_hardreset(h1, pdev.id, "dsp", rs[2])
     ELSE IF dev_name(pdev) = "omap-rproc.1"
          THEN omap_device_assert_hardreset(
                 omap_device_assert_hardreset(h1, pdev.id, "cpu0", rs[2]),
                 pdev.id, "cpu1", rs[3])
     ELSE h1

omap_rproc_device_shutdown(h, pdev, rs) ==
  LET h0 == [ h EXCEPT !.ret = -EINVAL ]
      h1 == omap_device_idle(h0, pdev.id, rs[1])
  IN IF h1.ret # 0 THEN h1
     ELSE IF dev_name(pdev) = "omap-rproc.0"
          THEN omap_device_assert_hardreset(h1, pdev.id, "dsp", rs[2])
     ELSE IF dev_name(pdev) = "omap-rproc.1"
          THEN LET h2 == omap_device_assert_hardreset(h1, pdev.id, "cpu0", rs[2])
               IN IF h2.ret # 0 THEN h2
                  ELSE omap_device_assert_hardreset(h2, pdev.id, "cpu1", rs[3])
     ELSE h1

\* device_enable going on after a failed de-assert of cpu1
device_enable_no_abort(h, pdev, rs) ==
  LET h0 == [ h EXCEPT !.ret = -EINVAL ]
  IN IF dev_name(pdev) = "omap-rproc.0"
     THEN LET h1 == omap_device_deassert_hardreset(h0, pdev.id, "dsp", rs[1])
          IN IF h1.ret # 0 THEN h1
             ELSE omap_device_enable(h1, pdev.id, rs[2])
     ELSE IF dev_name(pdev) = "omap-rproc.1"
     THEN LET h1 == omap_device_deassert_hardreset(h0, pdev.id, "cpu1", rs[1])
              h2 == omap_device_deassert_hardreset(h1, pdev.id, "cpu0", rs[2])
          IN IF h2.ret # 0 THEN h2
             ELSE omap_device_enable(h2, pdev.id, rs[3])
     ELSE h0

\* device_enable releasing cpu0 before cpu1
device_enable_cpu0_first(h, pdev, rs) ==
  LET h0 == [ h EXCEPT !.ret = -EINVAL ]
  IN IF dev_name(pdev) = "omap-rproc.0"
     THEN LET h1 == omap_device_deassert_hardreset(h0, pdev.id, "dsp", rs[1])
          IN IF h1.ret # 0 THEN h1
             ELSE omap_device_enable(h1, pdev.id, rs[2])
     ELSE IF dev_name(pdev) = "omap-rproc.1"
     THEN LET h1 == omap_device_deassert_hardreset(h0, pdev.id, "cpu0", rs[1])
          IN IF h1.ret # 0 THEN h1
             ELSE LET h2 == omap_device_deassert_hardreset(h1, pdev.id, "cpu1", rs[2])
                  IN IF h2.ret # 0 THEN h2
                     ELSE omap_device_enable(h2, pdev.id, rs[3])
     ELSE h0

omap_rproc_device_enable(h, pdev, rs) ==
  LET h0 == [ h EXCEPT !.ret = -EINVAL ]
  IN IF dev_name(pdev) = "omap-rproc.0"
     THEN LET h1 == omap_device_deassert_hardreset(h0, pdev.id, "dsp", rs[1])
          IN IF h1.ret # 0 THEN h1
             ELSE omap_device_enable(h1, pdev.id, rs[2])
     ELSE IF dev_name(pdev) = "omap-rproc.1"
     THEN LET h1 == omap_device_deassert_hardreset(h0, pdev.id, "cpu1", rs[1])
          IN IF h1.ret # 0 THEN h1
             ELSE LET h2 == omap_device_deassert_hardreset(h1, pdev.id, "cpu0", rs[2])
                  IN IF h2.ret # 0 THEN h2
                     ELSE omap_device_enable(h2, pdev.id, rs[3])
     ELSE h0

----------------------------------------------------------------------------
(* Timer callbacks.  t carries tm (the descriptor's timer array), reserved, *)
(* calls, ret; ok[i] tells whether the dmtimer driver grants request i.     *)

\* every dmtimer the tables name, with its capability
DmTimers == { [id |-> e.id, cap |-> e.cap] :
                e \in { dsp_timers_tbl[k] : k \in DOMAIN dsp_timers_tbl } \cup
                      { ipu_timers_tbl[k] : k \in DOMAIN ipu_timers_tbl } }

\* omap_dm_timer_request_by_cap(cap): the first free timer of that capability
omap_dm_timer_request_by_cap(res, cap, ok) ==
  LET free == { x.id : x \in { y \in DmTimers : y.cap = cap /\ y.id \notin res } }
  IN IF ok /\ free # {}
     THEN CHOOSE m \in free : \A n \in free : m <= n
     ELSE NULL

\* omap_dm_timer_request_specific(id): that timer, unless it is taken
omap_dm_timer_request_specific(res, id, ok) ==
  IF ok /\ id \notin res THEN id ELSE NULL

\* the acquisition with the of_have_populated_dt() test inverted
RequestTimerInverted(t, i, have_dt, ok) ==
  LET odt == IF ~have_dt
             THEN omap_dm_timer_request_by_cap(t.reserved, t.tm[i].cap, ok)
             ELSE omap_dm_timer_request_specific(t.reserved, t.tm[i].id, ok)
      c == IF ~have_dt
           THEN Call("omap_dm_timer_request_by_cap", NoDev, t.tm[i].cap, 0, odt)
           ELSE Call("omap_dm_timer_request_specific", NoDev, "", t.tm[i].id, odt)
  IN [ t EXCEPT !.tm[i].odt = odt,
                !.reserved = IF odt # NULL THEN @ \cup {odt} ELSE @,
                !.calls = Append(@, c) ]

\* lines 204-209: the acquisition path is chosen by of_have_populated_dt()
RequestTimer(t, i, have_dt, ok) ==
  LET odt == IF have_dt
             THEN omap_dm_timer_request_by_cap(t.reserved, t.tm[i].cap, ok)
             ELSE omap_dm_timer_request_specific(t.reserved, t.tm[i].id, ok)
      c == IF have_dt
           THEN Call("omap_dm_timer_request_by_cap", NoDev, t.tm[i].cap, 0, odt)
           ELSE Call("omap_dm_timer_request_specific", NoDev, "", t.tm[i].id, odt)
  IN [ t EXCEPT !.tm[i].odt = odt,
                !.reserved = IF odt # NULL THEN @ \cup {odt} ELSE @,
                !.calls = Append(@, c) ]

omap_dm_timer_set_source(t, odt) ==
  [ t EXCEPT !.calls = Append(@, Call("omap_dm_timer_set_source", NoDev,
                                      "OMAP_TIMER_SRC_SYS_CLK", odt, 0)) ]

omap_dm_timer_start(t, odt) ==
  [ t EXCEPT !.calls = Append(@, Call("omap_dm_timer_start", NoDev, "", odt, 0)) ]

omap_dm_timer_stop(t, odt) ==
  [ t EXCEPT !.calls = Append(@, Call("omap_dm_timer_stop", NoDev, "", odt, 0)) ]

omap_dm_timer_free(t, odt) ==
  [ t EXCEPT !.reserved = @ \ {odt},
             !.calls = Append(@, Call("omap_dm_timer_free", NoDev, "", odt, 0)) ]

RECURSIVE FreeTimersForward(_, _, _)
\* the rollback walking the acquired timers upwards from index lo
FreeTimersForward(t, lo, hi) ==
  IF lo > hi THEN t
  ELSE FreeTimersForward([ omap_dm_timer_free(t, t.tm[lo].odt) EXCEPT !.tm[lo].odt = NULL ],
                         lo + 1, hi)

\* free_timers releasing in acquisition order
FreeTimersInOrder(t, i) == FreeTimersForward(t, 1, i)

RECURSIVE FreeTimersStale(_, _)
\* free_timers leaving the freed handle in odt
FreeTimersStale(t, i) ==
  IF i = 0 THEN t
  ELSE FreeTimersStale(omap_dm_timer_free(t, t.tm[i].odt), i - 1)

RECURSIVE FreeTimersLeak(_, _)
\* free_timers as while (--i): the first timer is never released
FreeTimersLeak(t, i) ==
  IF i <= 1 THEN t
  ELSE FreeTimersLeak([ omap_dm_timer_free(t, t.tm[i].odt) EXCEPT !.tm[i].odt = NULL ],
                      i - 1)

RECURSIVE FreeTimers(_, _)
\* lines 225-231: while (i--) { free; odt = NULL; }, 1-based: i is the next to free
FreeTimers(t, i) ==
  IF i = 0 THEN t
  ELSE FreeTimers([ omap_dm_timer_free(t, t.tm[i].odt) EXCEPT !.tm[i].odt = NULL ], i - 1)

RECURSIVE StartTimers(_, _, _)
\* lines 221-223
StartTimers(t, i, cnt) ==
  IF i > cnt THEN [ t EXCEPT !.ret = 0 ]
  ELSE StartTimers(omap_dm_timer_start(t, t.tm[i].odt), i + 1, cnt)

RECURSIVE ConfigureTimersEager(_, _, _, _, _)
\* the configure loop starting each timer as soon as its source is set
ConfigureTimersEager(t, i, cnt, have_dt, ok) ==
  IF i > cnt THEN [ t EXCEPT !.ret = 0 ]
  ELSE LET t1 == RequestTimer(t, i, have_dt, ok[i])
       IN IF t1.tm[i].odt = NULL
          THEN FreeTimers([ t1 EXCEPT !.ret = -EBUSY ], i - 1)
          ELSE ConfigureTimersEager(
                 omap_dm_timer_start(omap_dm_timer_set_source(t1, t1.tm[i].odt),
                                     t1.tm[i].odt),
                 i + 1, cnt, have_dt, ok)

RECURSIVE ConfigureTimers(_, _, _, _, _)
\* lines 193-218, then the start loop or the free_timers path
ConfigureTimers(t, i, cnt, have_dt, ok) ==
  IF i > cnt THEN StartTimers(t, 1, cnt)
  ELSE LET t1 == RequestTimer(t, i, have_dt, ok[i])
       IN IF t1.tm[i].odt = NULL
          THEN FreeTimers([ t1 EXCEPT !.ret = -EBUSY ], i - 1)
          ELSE ConfigureTimers(omap_dm_timer_set_source(t1, t1.tm[i].odt),
                               i + 1, cnt, have_dt, ok)

\* enable_timers without the check of pdata->timers
enable_timers_unchecked(t, pdata, configure, have_dt, ok) ==
  LET t0 == [ t EXCEPT !.ret = 0 ]
  IN IF configure
     THEN ConfigureTimers(t0, 1, pdata.timers_cnt, have_dt, ok)
     ELSE StartTimers(t0, 1, pdata.timers_cnt)

omap_rproc_enable_timers(t, pdata, configure, have_dt, ok) ==
  LET t0 == [ t EXCEPT !.ret = 0 ]
  IN IF pdata.timers = NULLP THEN [ t0 EXCEPT !.ret = -EINVAL ]
     ELSE IF configure
          THEN ConfigureTimers(t0, 1, pdata.timers_cnt, have_dt, ok)
          ELSE StartTimers(t0, 1, pdata.timers_cnt)

RECURSIVE StopTimersAlwaysFree(_, _, _, _)
\* the stop loop releasing the timers whatever configure says
StopTimersAlwaysFree(t, i, cnt, configure) ==
  IF i > cnt THEN t
  ELSE StopTimersAlwaysFree(
         [ omap_dm_timer_free(omap_dm_timer_stop(t, t.tm[i].odt), t.tm[i].odt)
             EXCEPT !.tm[i].odt = NULL ],
         i + 1, cnt, configure)

RECURSIVE StopTimers(_, _, _, _)
\* lines 240-246
StopTimers(t, i, cnt, configure) ==
  IF i > cnt THEN t
  ELSE LET t1 == omap_dm_timer_stop(t, t.tm[i].odt)
           t2 == IF configure
                 THEN [ omap_dm_timer_free(t1, t1.tm[i].odt) EXCEPT !.tm[i].odt = NULL ]
                 ELSE t1
       IN StopTimers(t2, i + 1, cnt, configure)

omap_rproc_disable_timers(t, pdata, configure) ==
  [ StopTimers(t, 1, pdata.timers_cnt, configure) EXCEPT !.ret = 0 ]

----------------------------------------------------------------------------
(* States *)

\* the platform devices the callbacks are handed: omap4_tesla (id 0),
\* omap4_ducati (id 1) and a device of another name (id 2)
PdevIds == {0, 1, 2}
Lines == {"dsp", "cpu0", "cpu1"}

\* the static data as the compiler lays it out; nd, ni: the timer counts
Static(c, nd, ni) ==
  [ data |-> RprocData(c, nd, ni),
    pdevs |-> [ id \in PdevIds |->
                  IF id = 2
                  THEN [ PlatformDevice(id) EXCEPT !.init_name = "omap-rproc.2" ]
                  ELSE PlatformDevice(id) ],
    calls |-> << >>,
    ret |-> 0 ]

StaticTimers(c, nd, ni) ==
  [ arr \in {"dsp_timers", "ipu_timers"} |->
      IF arr = "dsp_timers"
      THEN (IF c.dsp THEN TimerArray(arr, nd) ELSE << >>)
      ELSE (IF c.ipu THEN TimerArray(arr, ni) ELSE << >>) ]

\* hwmod leaves every hardreset line asserted and every device idle at boot
HwReset ==
  /\ hardreset = [ l \in Lines |-> TRUE ]
  /\ enabled = [ id \in PdevIds |-> FALSE ]
  /\ reserved = {}
  /\ fw = [ id \in PdevIds |-> "off" ]
  /\ cycle = [ id \in PdevIds |-> << >> ]

\* the machine before omap_rproc_reserve_cma; the table is the source's, and
\* the IPU may carry the secondary hwmod entry that lines 299-311 provide for
InitBoot ==
  /\ cfg \in Configs
  /\ soc44xx \in BOOLEAN
  /\ dt \in BOOLEAN
  /\ \E opt \in {NULLP, "ipu_c1"} :
       omap4_rproc_data =
         [ i \in DOMAIN RprocData(cfg, 1, 1) |->
             IF RprocData(cfg, 1, 1)[i].oh_name = "ipu"
             THEN [ RprocData(cfg, 1, 1)[i] EXCEPT !.oh_name_opt = opt ]
             ELSE RprocData(cfg, 1, 1)[i] ]
  /\ timers = StaticTimers(cfg, 1, 1)
  /\ pdevs = Static(cfg, 1, 1).pdevs
  /\ HwReset
  /\ phase = "early"
  /\ last = [ fn |-> "boot", pdev |-> NoDev, configure |-> FALSE ]
  /\ calls = << >>
  /\ ret = 0

\* the machine after omap_rproc_init built every device of the table on an
\* OMAP44xx; timers_cnt of the descriptors ranges over 0..MaxTimers
Init ==
  /\ cfg \in Configs
  /\ soc44xx = TRUE
  /\ dt \in BOOLEAN
  /\ \E n \in 0..MaxTimers :
       LET s == omap_rproc_init(Static(cfg, n, n), TRUE,
                                [ i \in 1..2 |-> AllOk ], cfg)
       IN /\ omap4_rproc_data = s.data
          /\ pdevs = s.pdevs
          /\ calls = s.calls
          /\ ret = s.ret
          /\ timers = StaticTimers(cfg, n, n)
  /\ HwReset
  /\ phase = "initcalls_done"
  /\ last = [ fn |-> "omap_rproc_init", pdev |-> NoDev, configure |-> FALSE ]

----------------------------------------------------------------------------
(* Boot actions *)

ReserveCma ==
  /\ phase = "early"
  /\ \E rs \in [ 1..2 -> Statuses ] :
       calls' = omap_rproc_reserve_cma(cfg, rs)
  /\ ret' = 0
  /\ last' = [ fn |-> "omap_rproc_reserve_cma", pdev |-> NoDev, configure |-> FALSE ]
  /\ phase' = "reserved"
  /\ UNCHANGED << cfg, soc44xx, dt, omap4_rproc_data, timers, pdevs, hardreset,
                  enabled, reserved, fw, cycle >>

RprocInit ==
  /\ phase = "reserved"
  /\ \E outs \in [ 1..2 -> Outcomes ] :
       LET s == omap_rproc_init([ data |-> omap4_rproc_data, pdevs |-> pdevs,
                                  calls |-> << >>, ret |-> 0 ],
                                soc44xx, outs, cfg)
       IN /\ omap4_rproc_data' = s.data
          /\ pdevs' = s.pdevs
          /\ calls' = s.calls
          /\ ret' = s.ret
  /\ last' = [ fn |-> "omap_rproc_init", pdev |-> NoDev, configure |-> FALSE ]
  /\ phase' = "initcalls_done"
  /\ UNCHANGED << cfg, soc44xx, dt, timers, hardreset, enabled, reserved, fw, cycle >>

NextBoot == ReserveCma \/ RprocInit

SpecBoot == InitBoot /\ [][NextBoot]_vars

----------------------------------------------------------------------------
(* Run-time actions: the remoteproc framework calls the callbacks it finds  *)
(* in the platform data of a registered device, in matched pairs:           *)
(*   off -enable_timers(1)-> timers -device_enable-> on -device_shutdown->  *)
(*   stopped -disable_timers(1)-> off, with stopped -disable_timers(0)->    *)
(*   suspended -enable_timers(0)-> timers for suspend and resume; a failed  *)
(*   device_enable is followed by disable_timers(1), a failed               *)
(*   device_shutdown may be retried.  One remote processor is cycled at a   *)
(*   time.                                                                  *)

\* no other platform device is in the middle of a cycle
OthersOff(id) == \A o \in PdevIds \ {id} : fw[o] = "off"

Pdata(id) == pdevs[id].platform_data[1]

HasPdata(id) == pdevs[id].registered /\ pdevs[id].platform_data # << >>

TimerState(id) ==
  [ tm |-> IF Pdata(id).timers = NULLP THEN << >> ELSE timers[Pdata(id).timers],
    reserved |-> reserved, calls |-> << >>, ret |-> 0 ]

HwState == [ hardreset |-> hardreset, enabled |-> enabled, calls |-> << >>, ret |-> 0 ]

StoreTimers(id, t) ==
  /\ timers' = IF Pdata(id).timers = NULLP THEN timers
               ELSE [ timers EXCEPT ![Pdata(id).timers] = t.tm ]
  /\ reserved' = t.reserved
  /\ calls' = t.calls
  /\ ret' = t.ret

EnableTimers(id, configure) ==
  /\ phase = "initcalls_done"
  /\ HasPdata(id)
  /\ Pdata(id).enable_timers = "omap_rproc_enable_timers"
  /\ fw[id] = IF configure THEN "off" ELSE "suspended"
  /\ OthersOff(id)
  /\ \E ok \in [ 1..Pdata(id).timers_cnt -> BOOLEAN ] :
       LET t == omap_rproc_enable_timers(TimerState(id), Pdata(id), configure, dt, ok)
       IN /\ StoreTimers(id, t)
          /\ fw' = [ fw EXCEPT ![id] = IF t.ret = 0 THEN "timers" ELSE @ ]
  /\ last' = [ fn |-> "enable_timers", pdev |-> id, configure |-> configure ]
  /\ UNCHANGED << cfg, soc44xx, dt, omap4_rproc_data, pdevs, hardreset, enabled,
                  phase, cycle >>

DisableTimers(id, configure) ==
  /\ phase = "initcalls_done"
  /\ HasPdata(id)
  /\ Pdata(id).disable_timers = "omap_rproc_disable_timers"
  /\ IF configure THEN fw[id] \in {"stopped", "enable_failed"} ELSE fw[id] = "stopped"
  /\ LET t == omap_rproc_disable_timers(TimerState(id), Pdata(id), configure)
     IN StoreTimers(id, t)
  /\ fw' = [ fw EXCEPT ![id] = IF configure THEN "off" ELSE "suspended" ]
  /\ last' = [ fn |-> "disable_timers", pdev |-> id, configure |-> configure ]
  /\ cycle' = [ cycle EXCEPT ![id] = IF configure THEN << >> ELSE @ ]
  /\ UNCHANGED << cfg, soc44xx, dt, omap4_rproc_data, pdevs, hardreset, enabled,
                  phase >>

\* device 2 has no platform data of this file: the callbacks are entered
\* with it directly, between the cycles of the others
DeviceEnable(id) ==
  /\ phase = "initcalls_done"
  /\ IF HasPdata(id)
     THEN Pdata(id).device_enable = "omap_rproc_device_enable" /\ fw[id] = "timers"
     ELSE id = 2 /\ OthersOff(id)
  /\ \E rs \in [ 1..3 -> HwStatuses ] :
       LET h == omap_rproc_device_enable(HwState, pdevs[id], rs)
       IN /\ hardreset' = h.hardreset
          /\ enabled' = h.enabled
          /\ calls' = h.calls
          /\ ret' = h.ret
          /\ cycle' = [ cycle EXCEPT ![id] = h.calls ]
          /\ fw' = [ fw EXCEPT ![id] = IF id = 2 THEN @
                                       ELSE IF h.ret = 0 THEN "on" ELSE "enable_failed" ]
  /\ last' = [ fn |-> "device_enable", pdev |-> id, configure |-> FALSE ]
  /\ UNCHANGED << cfg, soc44xx, dt, omap4_rproc_data, timers, pdevs, reserved, phase >>

DeviceShutdown(id) ==
  /\ phase = "initcalls_done"
  /\ IF HasPdata(id)
     THEN Pdata(id).device_shutdown = "omap_rproc_device_shutdown" /\ fw[id] = "on"
     ELSE id = 2 /\ OthersOff(id)
  /\ Len(cycle[id]) + 3 <= MaxCycle
  /\ \E rs \in [ 1..3 -> HwStatuses ] :
       LET h == omap_rproc_device_shutdown(HwState, pdevs[id], rs)
       IN /\ hardreset' = h.hardreset
          /\ enabled' = h.enabled
          /\ calls' = h.calls
          /\ ret' = h.ret
          /\ cycle' = [ cycle EXCEPT ![id] = @ \o h.calls ]
          /\ fw' = [ fw EXCEPT ![id] = IF id = 2 THEN @
                                       ELSE IF h.ret = 0 THEN "stopped" ELSE @ ]
  /\ last' = [ fn |-> "device_shutdown", pdev |-> id, configure |-> FALSE ]
  /\ UNCHANGED << cfg, soc44xx, dt, omap4_rproc_data, timers, pdevs, reserved, phase >>

Next ==
  \/ \E id \in PdevIds, configure \in BOOLEAN : EnableTimers(id, configure)
  \/ \E id \in PdevIds, configure \in BOOLEAN : DisableTimers(id, configure)
  \/ \E id \in PdevIds : DeviceEnable(id)
  \/ \E id \in PdevIds : DeviceShutdown(id)

Spec == Init /\ [][Next]_vars

----------------------------------------------------------------------------
(* The timer callbacks entered by a caller that keeps no order: any device  *)
(* that carries the platform data, any configure, at any time.              *)

CallEnableTimers(id, configure) ==
  /\ phase = "initcalls_done"
  /\ HasPdata(id)
  /\ Pdata(id).enable_timers = "omap_rproc_enable_timers"
  /\ \E ok \in [ 1..Pdata(id).timers_cnt -> BOOLEAN ] :
       StoreTimers(id, omap_rproc_enable_timers(TimerState(id), Pdata(id),
                                                configure, dt, ok))
  /\ last' = [ fn |-> "enable_timers", pdev |-> id, configure |-> configure ]
  /\ UNCHANGED << cfg, soc44xx, dt, omap4_rproc_data, pdevs, hardreset, enabled,
                  phase, fw, cycle >>

CallDisableTimers(id, configure) ==
  /\ phase = "initcalls_done"
  /\ HasPdata(id)
  /\ Pdata(id).disable_timers = "omap_rproc_disable_timers"
  /\ StoreTimers(id, omap_rproc_disable_timers(TimerState(id), Pdata(id), configure))
  /\ last' = [ fn |-> "disable_timers", pdev |-> id, configure |-> configure ]
  /\ UNCHANGED << cfg, soc44xx, dt, omap4_rproc_data, pdevs, hardreset, enabled,
                  phase, fw, cycle >>

NextCalls ==
  \/ \E id \in PdevIds, configure \in BOOLEAN : CallEnableTimers(id, configure)
  \/ \E id \in PdevIds, configure \in BOOLEAN : CallDisableTimers(id, configure)

SpecCalls == Init /\ [][NextCalls]_vars

----------------------------------------------------------------------------
(* Helpers of the properties *)

\* the devices this file builds
RprocIds == {0, 1}

\* the hardreset lines of a remote processor
LinesOf(id) == IF id = 0 THEN {"dsp"} ELSE IF id = 1 THEN {"cpu0", "cpu1"} ELSE {}

\* a log reduced to the operations and the names they were given
Ops(log) == [ k \in DOMAIN log |-> << log[k].op, log[k].arg >> ]

AllSucceed(log) == \A k \in DOMAIN log : log[k].res = 0

Reverse(q) == [ k \in DOMAIN q |-> q[Len(q) + 1 - k] ]

IsRequest(c) ==
  c.op \in {"omap_dm_timer_request_by_cap", "omap_dm_timer_request_specific"}

IsFree(c) == c.op = "omap_dm_timer_free"

IsDmTimer(c) ==
  IsRequest(c) \/ c.op \in {"omap_dm_timer_free", "omap_dm_timer_set_source",
                            "omap_dm_timer_start", "omap_dm_timer_stop"}

IsResetOrPower(c) ==
  c.op \in {"omap_device_assert_hardreset", "omap_device_deassert_hardreset",
            "omap_device_enable", "omap_device_idle"}

CycleOf(id) ==
  IF id = 0
  THEN << << "omap_device_deassert_hardreset", "dsp" >>,
          << "omap_device_enable", "" >>,
          << "omap_device_idle", "" >>,
          << "omap_device_assert_hardreset", "dsp" >> >>
  ELSE << << "omap_device_deassert_hardreset", "cpu1" >>,
          << "omap_device_deassert_hardreset", "cpu0" >>,
          << "omap_device_enable", "" >>,
          << "omap_device_idle", "" >>,
          << "omap_device_assert_hardreset", "cpu0" >>,
          << "omap_device_assert_hardreset", "cpu1" >> >>

----------------------------------------------------------------------------
(* Properties *)

\* C1: when device_enable and then device_shutdown ran on the DSP or the IPU
\* and every collaborator call succeeded, the reset/power calls of the cycle
\* are exactly deassert(dsp), enable, idle, assert(dsp) for the DSP and
\* deassert(cpu1), deassert(cpu0), enable, idle, assert(cpu0), assert(cpu1)
\* for the IPU, all on that device, none other and none repeated.
C1_ResetSymmetry ==
  \A id \in RprocIds :
    (fw[id] = "stopped" /\ AllSucceed(cycle[id]))
      => /\ Ops(cycle[id]) = CycleOf(id)
         /\ \A k \in DOMAIN cycle[id] :
              cycle[id][k].pdev = id /\ IsResetOrPower(cycle[id][k])

C1_Witness ==
  /\ fw[1] = "stopped"
  /\ AllSucceed(cycle[1])
  /\ Len(cycle[1]) = 6
  /\ last.fn = "device_shutdown"

\* the platform data the last timer callback was handed
LastPdata == Pdata(last.pdev)

\* the timer array behind a platform data
TimersOf(pdata) == IF pdata.timers = NULLP THEN << >> ELSE timers[pdata.timers]

FailedRequest(c) == IsRequest(c) /\ c.res = NULL

\* enable_timers(configure = true) ran last and one of its requests failed
ConfigureFailed ==
  /\ last.fn = "enable_timers"
  /\ last.configure
  /\ \E k \in DOMAIN calls : FailedRequest(calls[k])

\* the handles the requests of the last call returned, in request order
Granted ==
  LET r == SelectSeq(calls, LAMBDA c : IsRequest(c) /\ c.res # NULL)
  IN [ k \in DOMAIN r |-> r[k].res ]

\* the handles the last call freed, in the order of the free calls
Freed ==
  LET f == SelectSeq(calls, IsFree)
  IN [ k \in DOMAIN f |-> f[k].num ]

\* C2: when enable_timers(configure = true) is entered with every handle
\* none and the request of the k-th timer fails, the call requests timers
\* 0..k-1 (each followed by set_source), then the failing one, then frees
\* timers k-1 down to 0 once each and nothing else; every acquired_handle is
\* none on return, the call returns busy and starts no timer.
C2_TimerRollback ==
  ConfigureFailed =>
    LET k == Len(Granted)
    IN /\ ret = -EBUSY
       /\ Len(calls) = 3 * k + 1
       /\ \A j \in 1..k :
            /\ IsRequest(calls[2 * j - 1]) /\ calls[2 * j - 1].res # NULL
            /\ calls[2 * j].op = "omap_dm_timer_set_source"
            /\ calls[2 * j].num = calls[2 * j - 1].res
       /\ FailedRequest(calls[2 * k + 1])
       /\ \A j \in 1..k : IsFree(calls[2 * k + 1 + j])
       /\ Freed = Reverse(Granted)
       /\ \A j \in DOMAIN calls : calls[j].op # "omap_dm_timer_start"
       /\ \A i \in DOMAIN TimersOf(LastPdata) : TimersOf(LastPdata)[i].odt = NULL

C2_Witness ==
  /\ ConfigureFailed
  /\ Len(Granted) = 2
  /\ Len(Freed) = 2
  /\ LastPdata.timers_cnt = 3
  /\ ret = -EBUSY

\* the last callback was handed a device named neither omap-rproc.0 nor
\* omap-rproc.1
UnknownDevice ==
  /\ last.pdev \in PdevIds
  /\ dev_name(pdevs[last.pdev]) \notin {"omap-rproc.0", "omap-rproc.1"}

\* C3: device_enable and device_shutdown on a device named neither
\* omap-rproc.0 nor omap-rproc.1 return -EINVAL and make no reset and no
\* power call.
C3_UnknownRejected ==
  (last.fn \in {"device_enable", "device_shutdown"} /\ UnknownDevice)
    => /\ ret = -EINVAL
       /\ \A k \in DOMAIN calls : ~IsResetOrPower(calls[k])

\* C7: enable_timers, with configure true or false, on a descriptor without
\* timers returns -EINVAL and calls no dmtimer primitive.
C7_NoTimers ==
  (last.fn = "enable_timers" /\ LastPdata.timers = NULLP)
    => /\ ret = -EINVAL
       /\ \A k \in DOMAIN calls : ~IsDmTimer(calls[k])

C7_Witness ==
  /\ last.fn = "enable_timers"
  /\ ~last.configure
  /\ LastPdata.timers = NULLP
  /\ LastPdata.timers_cnt = 0
  /\ ret = -EINVAL

\* enable_timers(configure = true) succeeded on the device and
\* disable_timers(configure = true) has not run since
Acquired(id) == fw[id] \in {"timers", "on", "stopped", "suspended", "enable_failed"}

\* C9: between matched enable_timers / disable_timers calls, a timer's
\* acquired_handle is non-none exactly when the timer was acquired by a
\* successful enable_timers(true) and not yet released by disable_timers(true),
\* and it is then a handle the dmtimer driver has outstanding; none before
\* the first enable_timers(true), after a failed one and after
\* disable_timers(true).
C9_HandleTracksAcquisition ==
  /\ \A id \in RprocIds :
       HasPdata(id) =>
         \A i \in DOMAIN TimersOf(Pdata(id)) :
           /\ TimersOf(Pdata(id))[i].odt # NULL <=> Acquired(id)
           /\ TimersOf(Pdata(id))[i].odt # NULL
                => TimersOf(Pdata(id))[i].odt \in reserved
  /\ \A h \in reserved :
       \E id \in RprocIds :
         /\ HasPdata(id)
         /\ \E i \in DOMAIN TimersOf(Pdata(id)) : TimersOf(Pdata(id))[i].odt = h

C9_Witness ==
  /\ last.fn = "enable_timers"
  /\ last.configure
  /\ ret = -EBUSY
  /\ Len(Freed) >= 1
  /\ fw[last.pdev] = "off"
  /\ \E id \in RprocIds \ {last.pdev} : HasPdata(id)

\* a remote processor with every hardreset line asserted and the device idle
Off(id) == (\A l \in LinesOf(id) : hardreset[l]) /\ ~enabled[id]

\* a remote processor with every hardreset line released and the device enabled
Enabled(id) == (\A l \in LinesOf(id) : ~hardreset[l]) /\ enabled[id]

\* C10: a device_enable that starts from Off and returns an error leaves the
\* remote processor Off, also when an earlier de-assert of the call succeeded.
C10_FailedEnableStaysOff ==
  [][ \A id \in RprocIds :
        (Off(id) /\ fw[id] = "timers" /\ fw'[id] = "enable_failed") => Off(id)' ]_vars

----------------------------------------------------------------------------
(* Properties of omap_rproc_init, under SpecBoot *)

\* omap_rproc_init has run on an OMAP44xx
InitDone == phase = "initcalls_done" /\ last.fn = "omap_rproc_init" /\ soc44xx

\* the failing add_data / register calls of the initcall, in call order
FailedSteps ==
  SelectSeq(calls, LAMBDA c : /\ c.op \in {"platform_device_add_data",
                                           "omap_device_register"}
                              /\ c.res # 0)

\* C4: omap_rproc_init returns the status of the latest failing add_data or
\* register call, also when a later descriptor is built without failure, and
\* zero only when no such call failed.
C4_LatestStatus ==
  InitDone =>
    ret = IF FailedSteps = << >> THEN 0 ELSE FailedSteps[Len(FailedSteps)].res

\* the platform device of the last descriptor of the table
LastDev == omap4_rproc_devs(cfg)[Len(omap4_rproc_devs(cfg))]

AllocFailed(id) ==
  \E k \in DOMAIN calls :
    calls[k].op = "omap_device_alloc" /\ calls[k].pdev = id /\ calls[k].res = NULL

\* C5: when omap_device_alloc returns NULL for the last descriptor, the
\* initcall puts the device, neither deletes nor registers it, and returns a
\* non-zero status.
C5_AllocFailure ==
  (InitDone /\ AllocFailed(LastDev)) =>
    /\ \E k \in DOMAIN calls : calls[k].op = "put_device" /\ calls[k].pdev = LastDev
    /\ \A k \in DOMAIN calls :
         calls[k].pdev = LastDev
           => calls[k].op \notin {"omap_device_delete", "omap_device_register"}
    /\ ret # 0

\* the calls of the initcall that concern descriptor i
CallsOf(i) ==
  { k \in DOMAIN calls :
      \/ calls[k].pdev = omap4_rproc_devs(cfg)[i]
      \/ /\ calls[k].op = "omap_hwmod_lookup"
         /\ calls[k].arg \in {omap4_rproc_data[i].oh_name,
                              omap4_rproc_data[i].oh_name_opt} }

PrimaryLookup(i, k) ==
  calls[k].op = "omap_hwmod_lookup" /\ calls[k].arg = omap4_rproc_data[i].oh_name

\* a collaborator call that reports failure: a status or a NULL result
Failing(c) ==
  IF c.op \in {"omap_hwmod_lookup", "omap_device_alloc"}
  THEN c.res = NULL
  ELSE c.res # 0

\* C6: every descriptor is processed from its primary hwmod lookup on,
\* after all the calls of the descriptors before it and whatever step failed
\* for them; a descriptor whose own steps all succeed is registered.
C6_Isolation ==
  InitDone =>
    \A j \in DOMAIN omap4_rproc_data :
      /\ \E k \in CallsOf(j) :
           /\ PrimaryLookup(j, k)
           /\ \A m \in CallsOf(j) : k <= m
           /\ \A i \in 1..(j - 1) : \A m \in CallsOf(i) : m < k
      /\ (\A k \in CallsOf(j) : ~Failing(calls[k]))
           => /\ pdevs[omap4_rproc_devs(cfg)[j]].registered
              /\ \E k \in CallsOf(j) : calls[k].op = "omap_device_register"

C6_Witness ==
  /\ InitDone
  /\ Len(omap4_rproc_data) = 2
  /\ \E k \in CallsOf(1) : Failing(calls[k]) /\ calls[k].op = "omap_device_register"
  /\ ~pdevs[0].registered
  /\ pdevs[1].registered

Callbacks(d) ==
  << d.device_enable, d.device_shutdown, d.enable_timers, d.disable_timers >>

AllCallbacks ==
  << "omap_rproc_device_enable", "omap_rproc_device_shutdown",
     "omap_rproc_enable_timers", "omap_rproc_disable_timers" >>

\* C8: after omap_rproc_init, every registered device has the four callback
\* slots filled, in its descriptor and in the copy attached as platform_data.
C8_CallbacksInstalled ==
  InitDone =>
    \A i \in DOMAIN omap4_rproc_data :
      pdevs[omap4_rproc_devs(cfg)[i]].registered
        => /\ Callbacks(omap4_rproc_data[i]) = AllCallbacks
           /\ pdevs[omap4_rproc_devs(cfg)[i]].platform_data # << >>
           /\ Callbacks(pdevs[omap4_rproc_devs(cfg)[i]].platform_data[1]) = AllCallbacks

C8_Witness ==
  /\ InitDone
  /\ pdevs[0].registered
  /\ pdevs[1].registered
  /\ Callbacks(pdevs[1].platform_data[1]) = AllCallbacks

\* omap_rproc_init has run on a SoC that is no OMAP44xx
InitSkipped == phase = "initcalls_done" /\ last.fn = "omap_rproc_init" /\ ~soc44xx

\* C11: on a SoC that is not an OMAP44xx, omap_rproc_init returns 0 and
\* makes no collaborator call: no lookup, no alloc / add_data / register, and
\* it writes no callback slot and no iommu back-reference.
C11_OtherSocUntouched ==
  InitSkipped =>
    /\ ret = 0
    /\ calls = << >>
    /\ \A i \in DOMAIN omap4_rproc_data :
         Callbacks(omap4_rproc_data[i]) = << NULLP, NULLP, NULLP, NULLP >>
    /\ pdevs = Static(cfg, 1, 1).pdevs

C11_Witness ==
  /\ InitSkipped
  /\ Len(omap4_rproc_data) = 2
  /\ pdevs[1].iommu = NULLP
  /\ ret = 0

\* the reservations the hook owes the configuration: device and base
ReservationsOf(c) ==
  (IF c.dsp THEN << << 0, OMAP_RPROC_CMA_BASE_DSP >> >> ELSE << >>) \o
  (IF c.ipu THEN << << 1, OMAP_RPROC_CMA_BASE_IPU >> >> ELSE << >>)

\* C12: omap_rproc_reserve_cma makes exactly one dma_declare_contiguous call
\* per enabled remote processor, the DSP's at its base then the IPU's at its
\* base, each for that processor's own device, whatever the calls return:
\* a failed DSP reservation does not stop the IPU's, nothing is retried.
C12_OneReservationEach ==
  last.fn = "omap_rproc_reserve_cma" =>
    /\ [ k \in DOMAIN calls |-> << calls[k].pdev, calls[k].num >> ] = ReservationsOf(cfg)
    /\ \A k \in DOMAIN calls : calls[k].op = "dma_declare_contiguous"
    /\ ret = 0

C12_Witness ==
  /\ last.fn = "omap_rproc_reserve_cma"
  /\ Len(calls) = 2
  /\ calls[1].res # 0
  /\ calls[2].pdev = 1

----------------------------------------------------------------------------
(* Properties of the callbacks, call by call *)

\* the request calls of the last callback, in call order
Requests == SelectSeq(calls, IsRequest)

\* enable_timers(configure = true) ran last on a descriptor with timers
Configured ==
  /\ last.fn = "enable_timers"
  /\ last.configure
  /\ LastPdata.timers # NULLP

\* C13: in enable_timers(configure = true) every timer is requested through
\* the one path of_have_populated_dt() selects: with a populated device tree
\* by the capability of its entry and never by id, otherwise by the legacy id
\* of its entry (5 for the DSP's first timer, 3 for the IPU's) and never by
\* capability.
C13_OneAcquisitionPath ==
  Configured =>
    /\ \A k \in DOMAIN Requests :
         IF dt
         THEN /\ Requests[k].op = "omap_dm_timer_request_by_cap"
              /\ Requests[k].arg = TimersOf(LastPdata)[k].cap
         ELSE /\ Requests[k].op = "omap_dm_timer_request_specific"
              /\ Requests[k].num = TimersOf(LastPdata)[k].id
    /\ (~dt /\ Requests # << >>)
         => Requests[1].num = IF LastPdata.oh_name = "dsp" THEN 5 ELSE 3
    /\ (dt /\ Requests # << >>)
         => Requests[1].arg = IF LastPdata.oh_name = "dsp"
                              THEN "OMAP_TIMER_HAS_DSP_IRQ"
                              ELSE "OMAP_TIMER_HAS_IPU_IRQ"

C13_Witness ==
  /\ Configured
  /\ ~dt
  /\ last.pdev = 1
  /\ Len(Requests) >= 2
  /\ Requests[1].op = "omap_dm_timer_request_specific"
  /\ Requests[1].num = 3

\* the calls device_shutdown owes a device, in order
ShutdownOf(id) ==
  IF id = 0
  THEN << << "omap_device_idle", "" >>, << "omap_device_assert_hardreset", "dsp" >> >>
  ELSE IF id = 1
  THEN << << "omap_device_idle", "" >>, << "omap_device_assert_hardreset", "cpu0" >>,
          << "omap_device_assert_hardreset", "cpu1" >> >>
  ELSE << << "omap_device_idle", "" >> >>

\* C14: device_shutdown calls device_idle first, goes through idle and the
\* asserts of its lines in order, stops at the first call that fails and
\* returns that call's status: no assert after a failed idle, no
\* assert(cpu1) after a failed assert(cpu0).
C14_ShutdownAborts ==
  last.fn = "device_shutdown" =>
    /\ Len(calls) >= 1
    /\ calls[1].op = "omap_device_idle"
    /\ Len(calls) <= Len(ShutdownOf(last.pdev))
    /\ Ops(calls) = SubSeq(ShutdownOf(last.pdev), 1, Len(calls))
    /\ \A k \in 1..(Len(calls) - 1) : calls[k].res = 0
    /\ ret = calls[Len(calls)].res
    /\ ret = 0 => Len(calls) = Len(ShutdownOf(last.pdev))

C14_Witness ==
  /\ last.fn = "device_shutdown"
  /\ last.pdev = 1
  /\ Len(calls) = 2
  /\ calls[2].arg = "cpu0"
  /\ calls[2].res # 0
  /\ ret = calls[2].res

\* the lines whose de-assert succeeded before call k of the last callback
Released(k) ==
  { calls[j].arg : j \in { m \in 1..(k - 1) :
                             /\ calls[m].op = "omap_device_deassert_hardreset"
                             /\ calls[m].res = 0 } }

\* C15: device_enable calls omap_device_enable only after the de-assert of
\* every hardreset line of the device succeeded; a failing de-assert is the
\* last call of the invocation and its status is the return value, so a
\* failed deassert(cpu1) is followed neither by deassert(cpu0) nor by
\* omap_device_enable.
C15_EnableAfterDeasserts ==
  last.fn = "device_enable" =>
    \A k \in DOMAIN calls :
      /\ calls[k].pdev = last.pdev
      /\ (calls[k].op = "omap_device_deassert_hardreset" /\ calls[k].res # 0)
           => k = Len(calls) /\ ret = calls[k].res
      /\ calls[k].op = "omap_device_enable"
           => /\ last.pdev \in RprocIds
              /\ Released(k) = LinesOf(last.pdev)
              /\ k = Len(calls)
              /\ ret = calls[k].res

C15_Witness ==
  /\ last.fn = "device_enable"
  /\ last.pdev = 1
  /\ Len(calls) = 1
  /\ calls[1].arg = "cpu1"
  /\ calls[1].res # 0
  /\ ret = calls[1].res

\* the step is the callback fn entered for device id with that configure
Entered(fn, id, cf) == last' = [ fn |-> fn, pdev |-> id, configure |-> cf ]

\* what a successful enable_timers on device id has called and left behind
EnableOrder(id, cf) ==
  LET N == Pdata(id).timers_cnt
  IN IF cf
     THEN /\ Len(calls') = 3 * N
          /\ \A i \in 1..N :
               /\ IsRequest(calls'[2 * i - 1])
               /\ calls'[2 * i - 1].res # NULL
               /\ timers'[Pdata(id).timers][i].odt = calls'[2 * i - 1].res
               /\ calls'[2 * i].op = "omap_dm_timer_set_source"
               /\ calls'[2 * i].arg = "OMAP_TIMER_SRC_SYS_CLK"
               /\ calls'[2 * i].num = calls'[2 * i - 1].res
               /\ calls'[2 * N + i].op = "omap_dm_timer_start"
               /\ calls'[2 * N + i].num = calls'[2 * i - 1].res
     ELSE /\ Len(calls') = N
          /\ \A i \in 1..N :
               /\ calls'[i].op = "omap_dm_timer_start"
               /\ calls'[i].num = timers[Pdata(id).timers][i].odt
          /\ timers' = timers
          /\ reserved' = reserved

\* C16: a successful enable_timers(configure = true) over N timers requests
\* each timer and sets its source to the system clock, timer by timer, starts
\* none before all N are configured, and then starts the N timers in index
\* order, once each; enable_timers(configure = false) makes no request, no
\* set_source and no free, leaves every acquired_handle as it was and starts
\* each timer once in index order.
C16_ConfigureThenStart ==
  [][ \A id \in RprocIds : \A cf \in BOOLEAN :
        (Entered("enable_timers", id, cf) /\ ret' = 0) => EnableOrder(id, cf) ]_vars

C16_Witness ==
  /\ last.fn = "enable_timers"
  /\ last.configure
  /\ ret = 0
  /\ LastPdata.timers_cnt = 3
  /\ Len(calls) = 9
  /\ calls[9].op = "omap_dm_timer_start"

\* what disable_timers on device id has called and left behind
DisableOrder(id, cf) ==
  LET N == Pdata(id).timers_cnt
      old == TimersOf(Pdata(id))
  IN /\ ret' = 0
     /\ IF cf
        THEN /\ Len(calls') = 2 * N
             /\ \A i \in 1..N :
                  /\ calls'[2 * i - 1].op = "omap_dm_timer_stop"
                  /\ calls'[2 * i - 1].num = old[i].odt
                  /\ calls'[2 * i].op = "omap_dm_timer_free"
                  /\ calls'[2 * i].num = old[i].odt
                  /\ timers'[Pdata(id).timers][i].odt = NULL
        ELSE /\ Len(calls') = N
             /\ \A i \in 1..N :
                  /\ calls'[i].op = "omap_dm_timer_stop"
                  /\ calls'[i].num = old[i].odt
             /\ timers' = timers
             /\ reserved' = reserved

\* C17: disable_timers returns 0 and stops every timer once, in index order;
\* with configure = true each timer is freed once, right after its stop, and
\* its acquired_handle is none on return; with configure = false no timer is
\* freed and every acquired_handle is as it was.
C17_StopThenFree ==
  [][ \A id \in RprocIds : \A cf \in BOOLEAN :
        Entered("disable_timers", id, cf) => DisableOrder(id, cf) ]_vars

C17_Witness ==
  /\ last.fn = "disable_timers"
  /\ last.configure
  /\ ret = 0
  /\ Len(calls) = 6
  /\ calls[1].num # NULL
  /\ calls[6].op = "omap_dm_timer_free"
  /\ \A i \in DOMAIN TimersOf(LastPdata) : TimersOf(LastPdata)[i].odt = NULL

----------------------------------------------------------------------------
(* Rollback and table alignment in omap_rproc_init, under SpecBoot *)

\* how often the initcall made that call on that platform device
Count(op, id) ==
  Cardinality({ k \in DOMAIN calls : calls[k].op = op /\ calls[k].pdev = id })

AllocSucceeded(id) ==
  \E k \in DOMAIN calls :
    calls[k].op = "omap_device_alloc" /\ calls[k].pdev = id /\ calls[k].res # NULL

\* add_data or register failed for the device
LaterStepFailed(id) ==
  \E k \in DOMAIN calls :
    /\ calls[k].pdev = id
    /\ calls[k].op \in {"platform_device_add_data", "omap_device_register"}
    /\ calls[k].res # 0

\* C18: for each descriptor, omap_device_delete is called once when
\* omap_device_alloc succeeded and add_data or register then failed, and not
\* at all otherwise: not after a failed alloc, not for a registered device;
\* put_device is called once on every failure after device_initialize and not
\* otherwise; omap_device_register is called at most once.
C18_RollbackExact ==
  InitDone =>
    \A i \in DOMAIN omap4_rproc_data :
      LET id == omap4_rproc_devs(cfg)[i]
      IN /\ Count("omap_device_delete", id) =
              IF AllocSucceeded(id) /\ LaterStepFailed(id) THEN 1 ELSE 0
         /\ Count("put_device", id) =
              IF Count("device_initialize", id) = 1
                 /\ (AllocFailed(id) \/ LaterStepFailed(id))
              THEN 1 ELSE 0
         /\ Count("omap_device_register", id) <= 1
         /\ Count("device_initialize", id) <= 1
         /\ pdevs[id].registered
              => /\ Count("omap_device_delete", id) = 0
                 /\ Count("put_device", id) = 0
                 /\ pdevs[id].od # NULL
         /\ \A k \in DOMAIN calls :
              (calls[k].op = "omap_device_delete" /\ calls[k].pdev = id)
                => /\ k < Len(calls)
                   /\ calls[k + 1].op = "put_device"
                   /\ calls[k + 1].pdev = id

C18_Witness ==
  /\ InitDone
  /\ AllocSucceeded(1)
  /\ \E k \in DOMAIN calls :
       calls[k].op = "omap_device_register" /\ calls[k].pdev = 1 /\ calls[k].res # 0
  /\ Count("omap_device_delete", 1) = 1
  /\ Count("put_device", 1) = 1
  /\ AllocFailed(0)
  /\ Count("put_device", 0) = 1

\* the lines a callback's calls of that operation name, run on the device as
\* it is now with every collaborator succeeding
Dispatched(h, op) ==
  { h.calls[k].arg : k \in { m \in DOMAIN h.calls : h.calls[m].op = op } }

\* C19: in every build configuration, descriptor i, iommu binding i and
\* platform device i belong to the same remote processor: the DSP's device
\* has id 0, the IPU's id 1; a device the initcall tried to register has its
\* archdata.iommu bound to mmu_dsp for the DSP and mmu_ipu for the IPU; its
\* name was set to omap-rproc.<id> before omap_device_alloc; and
\* device_enable / device_shutdown on it address the reset lines of that
\* same remote processor.
C19_TablesAligned ==
  InitDone =>
    \A i \in DOMAIN omap4_rproc_data :
      LET id == omap4_rproc_devs(cfg)[i]
          dsp == omap4_rproc_data[i].oh_name = "dsp"
          nm == IF dsp THEN "omap-rproc.0" ELSE "omap-rproc.1"
          ok == [ k \in 1..3 |-> 0 ]
      IN /\ id = IF dsp THEN 0 ELSE 1
         /\ Count("omap_device_register", id) = 1
              => pdevs[id].iommu = IF dsp THEN "mmu_dsp" ELSE "mmu_ipu"
         /\ \A k \in DOMAIN calls :
              (calls[k].op = "omap_device_alloc" /\ calls[k].pdev = id)
                => /\ k > 1
                   /\ calls[k - 1].op = "dev_set_name"
                   /\ calls[k - 1].pdev = id
                   /\ calls[k - 1].arg = nm
         /\ pdevs[id].registered
              => /\ dev_name(pdevs[id]) = nm
                 /\ pdevs[id].platform_data[1].name = omap4_rproc_data[i].name
                 /\ Dispatched(omap_rproc_device_enable(HwState, pdevs[id], ok),
                               "omap_device_deassert_hardreset")
                      = IF dsp THEN {"dsp"} ELSE {"cpu0", "cpu1"}
                 /\ Dispatched(omap_rproc_device_shutdown(HwState, pdevs[id], ok),
                               "omap_device_assert_hardreset")
                      = IF dsp THEN {"dsp"} ELSE {"cpu0", "cpu1"}

C19_Witness ==
  /\ InitDone
  /\ cfg = [dsp |-> FALSE, ipu |-> TRUE]
  /\ Len(omap4_rproc_data) = 1
  /\ pdevs[1].registered
  /\ pdevs[1].iommu = "mmu_ipu"
  /\ dev_name(pdevs[1]) = "omap-rproc.1"

----------------------------------------------------------------------------
(* Timer handles over the lifecycle, under Spec *)

\* the handles outstanding after call k of the step's callback: those held
\* before the step, with the grants added and the frees removed
Live(k) ==
  (reserved \cup
     { calls'[j].res : j \in { m \in 1..k : IsRequest(calls'[m]) /\ calls'[m].res # NULL } })
  \ { calls'[j].num : j \in { m \in 1..k : IsFree(calls'[m]) } }

\* a call that uses a handle it did not just obtain
UsesHandle(c) ==
  c.op \in {"omap_dm_timer_free", "omap_dm_timer_set_source",
            "omap_dm_timer_start", "omap_dm_timer_stop"}

\* between the callbacks: a remote processor in a cycle holds no more handles
\* than it has timers, and with every remote processor off none is outstanding
NoLeak ==
  /\ \A id \in RprocIds :
       (HasPdata(id) /\ fw[id] # "off") => Cardinality(reserved) <= Pdata(id).timers_cnt
  /\ (\A id \in RprocIds : fw[id] = "off") => reserved = {}

\* C20: over any number of cycles enable_timers(true), device_enable,
\* device_shutdown, disable_timers(true) on a descriptor, with enable_timers
\* failing at any timer and the cycle then abandoned: at every call of the
\* timer callbacks the outstanding handles are no more than the descriptor's
\* timers, every set_source / start / stop / free is given a handle that is
\* outstanding (none freed twice, none used after its free), and when a cycle
\* is completed or abandoned no handle is outstanding.
C20_NoTimerLeak ==
  [][ /\ NoLeak'
      /\ last'.fn \in {"enable_timers", "disable_timers"}
           => /\ reserved' = Live(Len(calls'))
              /\ \A k \in DOMAIN calls' :
                   /\ Cardinality(Live(k)) <= Pdata(last'.pdev).timers_cnt
                   /\ UsesHandle(calls'[k]) => calls'[k].num \in Live(k - 1)
                   /\ (IsRequest(calls'[k]) /\ calls'[k].res # NULL)
                        => calls'[k].res \notin Live(k - 1) ]_vars

C20_Witness ==
  /\ last.fn = "disable_timers"
  /\ last.configure
  /\ fw[last.pdev] = "off"
  /\ Len(Freed) = 3
  /\ reserved = {}
  /\ \A i \in DOMAIN TimersOf(LastPdata) : TimersOf(LastPdata)[i].odt = NULL

====
